---- MODULE Spec2Model ----
(***************************************************************************)
(* Document-level NMT driver (src/main.py) and the D2D model               *)
(* (src/models/D2D.py): batch sharding, document segmentation, the shared  *)
(* memory cache, the training loop and the translation output order.       *)
(***************************************************************************)
EXTENDS Integers, Sequences, FiniteSets, TLC

\* ------------------------------------------------------------------------
\* Bounds of the model
\* ------------------------------------------------------------------------
MaxBatch == 5
MaxSplit == 4
MaxSeqLen == 2
MaxBatchTokens == 5
MaxDocs == 2
MaxUpdates == 4
MaxCalls == 5
MaxDocBatches == 3
MaxSents == 2
MaxSteps == 2
NLayers == 2
MaxOutDocs == 3
MaxOutSents == 2
MaxMapDocs == 2
MaxMapLen == 2
MaxBeam == 2
MaxReloads == 1

\* ------------------------------------------------------------------------
\* Reserved vocabulary ids (main.py 28-30) and real tokens
\* ------------------------------------------------------------------------
PAD == 0
EOS == 1
BOS == 2

Markers == {PAD, EOS, BOS}

\* The i-th real token of a batch: an id of its own, above the reserved ids.
Word(i) == BOS + 1 + i

IsWord(t) == t \notin Markers

Max(S) == CHOOSE m \in S : \A x \in S : x <= m

\* ------------------------------------------------------------------------
\* Generic helpers
\* ------------------------------------------------------------------------
Range(s) == {s[i] : i \in DOMAIN s}

Min2(a, b) == IF a <= b THEN a ELSE b

Min(S) == CHOOSE m \in S : \A x \in S : m <= x

RECURSIVE Flatten(_)
Flatten(ss) == IF ss = <<>> THEN <<>> ELSE Head(ss) \o Flatten(Tail(ss))

Perms(n) == {p \in [1..n -> 1..n] : \A i, j \in 1..n : i # j => p[i] # p[j]}

\* ------------------------------------------------------------------------
\* State
\* ------------------------------------------------------------------------
VARIABLES
    sh_pc,        \* split_shard: "ready" before the call, "done" after
    sh_inputs,    \* split_shard: *inputs, <<seqs_x, seqs_y>>
    split_size,   \* split_shard: the split_size argument (update_cycle)
    sh_out,       \* split_shard: the shards yielded, in order
    sp_pc,        \* prepare_data_doc: "ready" before the call, "done" after
    sp_seqs,      \* prepare_data_doc: seqs_x, one flat token list per document
    sp_batch,     \* prepare_data_doc: x_batch, one padded matrix per position
    words_norm,   \* compute_forward: words_norm of every sentence position
    tr_pc,              \* train: "loop" inside the epoch loop, "done", "crashed"
    training_configs,   \* train: the configuration values the loop reads
    eidx,               \* train: epoch index
    uidx,               \* train: update index
    epoch_len,          \* train: len(training_iterator), batches per epoch
    batch_no,           \* train: batches taken from training_iter this epoch
    bad_count,          \* train: BLEU validations since the last best one
    oom_count,          \* train: out-of-memory skips
    is_early_stop,      \* train: early stop has been triggered
    grads,              \* train: shards whose gradients the optimizer holds
    optim_steps,        \* train: optim.step() calls that completed
    fault,              \* train: what the last batch's try block raised
    optimizer_configs,  \* train: optimizer_configs (schedule_method)
    sched_steps,        \* train: the calls of scheduler.step so far
    ma_steps,           \* train: the calls of ma.step so far
    model_params,       \* train: the parameters nmt_model holds
    valid_params,       \* train: the parameters the last validations ran on
    shard_norms,        \* train: shard sizes and normalizations of the batch
    model_collections,  \* train: the Collections store, name -> list
    ckpt_saved,         \* train: global steps given to checkpoint_saver.save
    latest_ckpt,        \* train: what the latest checkpoint holds
    reloads,            \* train: restarts of the run with --reload
    best_saved,         \* train: global steps given to best_model_saver.save
    final_dumped,       \* train: update steps at which '.final' was written
    memory_cache,       \* ctx.memory_cache: a tuple of per-layer memories
    memory_mask,        \* ctx.memory_mask: a mask tensor or NoTensor (None)
    dec_signature,      \* the memory decoder's parameter list (see MemDecoder)
    dec_call,           \* the last call of the memory decoder, as it saw it
    d2d_calls,          \* D2D called directly: calls made so far
    doc_pc,             \* drivers: "between" batches, "forward", "infer", "beam"
    doc_driver,         \* drivers: the process, "train" or "translate"
    doc_kind,           \* drivers: what is processing the current batch
    bno,                \* drivers: number of the current document batch
    n_sents,            \* drivers: sentence positions of the current batch
    sents_no,           \* drivers: sentence positions done
    beam_step,          \* drivers: decode steps of the running beam search
    tl_pc,              \* translate / bleu_validation: "run", then "done"
    tl_fn,              \* which of the two functions runs
    tl_batches,         \* batches valid_iter has still to produce (seq_nums)
    numbers,            \* record numbers collected so far
    trans_docs,         \* per collected document, its translated sentences
    trans_sents,        \* the lines written
    tl_translated,      \* <<number, position>> of every non-empty best beam
    mp_pc,              \* global encoding: "ready", "loop", "done"
    mp_seqs,            \* global encoding: seqs_x, a token list per document
    global_cat,         \* ctx.GLOBAL_CAT
    mp_x,               \* global encoding: x = prepare_data(seqs_x)
    map_res,            \* what src_doc_sents_map(x) returned
    sents_mapping,      \* the segment ids as the sentence loop uses them
    mp_enc_mask,        \* the padding mask of the encoder as the loop uses it
    mp_sents_no,        \* global encoding: sentence positions done
    mp_sent_mask,       \* current_sent_mask, the mask built for the last position done
    bs_pc,              \* decoder state in beam search: idle, encoded, decoding, raised
    enc_outputs,        \* what D2D.encode returned
    dec_states,         \* the decoder state dict
    bs_steps,           \* D2D.decode calls made on the state
    bs_call             \* the last reorder_dec_states call

shardVars == <<sh_pc, sh_inputs, split_size, sh_out>>

splitVars == <<sp_pc, sp_seqs, sp_batch, words_norm>>

trainVars == <<tr_pc, training_configs, eidx, uidx, epoch_len, batch_no, bad_count,
               oom_count, is_early_stop, grads, optim_steps, fault,
               optimizer_configs, sched_steps, ma_steps, model_params,
               valid_params, shard_norms,
               model_collections, ckpt_saved, latest_ckpt, reloads,
               best_saved, final_dumped>>

cacheVars == <<memory_cache, memory_mask, dec_signature, dec_call>>

docVars == <<d2d_calls, doc_pc, doc_driver, doc_kind, bno, n_sents, sents_no,
             beam_step>>

outVars == <<tl_pc, tl_fn, tl_batches, numbers, trans_docs, trans_sents,
             tl_translated>>

mapVars ==
    <<mp_pc,
      mp_seqs,
      global_cat,
      mp_x,
      map_res,
      sents_mapping,
      mp_enc_mask,
      mp_sents_no,
      mp_sent_mask>>

beamVars == <<bs_pc, enc_outputs, dec_states, bs_steps, bs_call>>

vars ==
    <<shardVars,
      splitVars,
      trainVars,
      cacheVars,
      docVars,
      outVars,
      mapVars,
      beamVars>>

\* ------------------------------------------------------------------------
\* split_shard (main.py 54-80)
\* ------------------------------------------------------------------------

\* np.argsort(lengths): the index orders that sort the lengths.  The default
\* kind is not stable, so records of equal length may come in any order.
Argsort(lengths) ==
    {p \in Perms(Len(lengths)) :
        \A i \in 1..(Len(lengths) - 1) : lengths[p[i]] <= lengths[p[i + 1]]}

\* list(range(total))[::step], 0-based
RangeStepShifted(total, step) ==
    [i \in 1..((total + step) \div (step + 1)) |-> (i - 1) * (step + 1)]

RangeStep(total, step) ==
    [i \in 1..((total + step - 1) \div step) |-> (i - 1) * step]

\* inp[beg:end], 0-based half-open
ShardSliceDropFirst(inp, beg, end) == SubSeq(inp, beg + 2, end)

ShardSlice(inp, beg, end) == SubSeq(inp, beg + 1, end)

\* The sequence of shards split_shard yields for one sorting order.
SplitShard(inputs, split, sorted_indices) ==
    IF split <= 1
    THEN <<inputs>>
    ELSE LET total_batch == Len(sorted_indices)
             sorted == [k \in DOMAIN inputs |->
                          [j \in 1..total_batch |-> inputs[k][sorted_indices[j]]]]
         IN  IF split >= total_batch
             THEN <<sorted>>
             ELSE LET shard_size == total_batch \div split
                      indices == RangeStep(total_batch, shard_size)
                                     \o <<total_batch>>
                  IN  [s \in 1..(Len(indices) - 1) |->
                          [k \in DOMAIN sorted |->
                              ShardSlice(sorted[k], indices[s], indices[s + 1])]]

\* A batch of n records: record i is the pair (seqs_x[i], seqs_y[i]); both
\* carry the record number i so that a shard element can be traced back.
BatchOf(lens) ==
    << [i \in DOMAIN lens |-> <<i>>],
       [i \in DOMAIN lens |-> [k \in 1..lens[i] |-> i]] >>

ShardStart ==
    /\ sh_pc = "ready"
    /\ \E n \in 1..MaxBatch :
         \E lens \in [1..n -> 1..MaxSeqLen] : sh_inputs = BatchOf(lens)
    /\ split_size \in 0..MaxSplit
    /\ sh_out = <<>>

ShardIdle ==
    /\ sh_pc = "idle"
    /\ sh_inputs = <<>>
    /\ split_size = 0
    /\ sh_out = <<>>

\* One call of split_shard, run to exhaustion by its consumer.
CallSplitShard ==
    /\ sh_pc = "ready"
    /\ \E p \in Argsort([i \in DOMAIN sh_inputs[2] |-> Len(sh_inputs[2][i])]) :
         sh_out' = SplitShard(sh_inputs, split_size, p)
    /\ sh_pc' = "done"
    /\ UNCHANGED <<sh_inputs, split_size>>
    /\ UNCHANGED <<splitVars, trainVars, cacheVars, docVars,
                   outVars, mapVars, beamVars>>

\* ------------------------------------------------------------------------
\* tgt_doc_seq_split, prepare_data, prepare_data_doc (main.py 83-135, 182-208)
\* ------------------------------------------------------------------------

\* seq[1 + last_sep_index : i] with i the 0-based index of an end marker;
\* here i is that index 1-based.
SentSliceShort(seq, last_sep_index, i) == SubSeq(seq, last_sep_index + 2, i - 2)

SentSlice(seq, last_sep_index, i) == SubSeq(seq, last_sep_index + 2, i - 1)

\* The loop over range(len(seq)) of tgt_doc_seq_split for one document:
\* i is the 1-based scan position, acc the sentences found so far.
RECURSIVE ScanDoc(_, _, _, _)
ScanDoc(seq, i, last_sep_index, acc) ==
    IF i > Len(seq)
    THEN acc
    ELSE IF seq[i] = EOS
         THEN ScanDoc(seq, i + 1, i,
                      Append(acc, SentSlice(seq, last_sep_index, i)))
         ELSE ScanDoc(seq, i + 1, last_sep_index, acc)

\* dec_batch[s][d]: sentence s of document d, <<>> where d has no sentence s.
TgtDocSeqSplit(tgt_seqs) ==
    LET split_res == [d \in DOMAIN tgt_seqs |->
                         ScanDoc(<<BOS>> \o tgt_seqs[d] \o <<EOS>>, 1, 0, <<>>)]
        max_n_sents == Max({Len(split_res[d]) : d \in DOMAIN tgt_seqs})
        padded == [d \in DOMAIN tgt_seqs |->
                      split_res[d] \o
                          [k \in 1..(max_n_sents - Len(split_res[d])) |-> <<>>]]
    IN  [s \in 1..max_n_sents |-> [d \in DOMAIN tgt_seqs |-> padded[d][s]]]

\* prepare_data(seqs_x) with seqs_y = None: the rows of the padded tensor.
PrepareData(seqs_x) ==
    LET bracketed == [i \in DOMAIN seqs_x |->
                         IF Len(seqs_x[i]) # 0
                         THEN <<BOS>> \o seqs_x[i] \o <<EOS>>
                         ELSE seqs_x[i]]
        max_size == Max({Len(bracketed[i]) : i \in DOMAIN seqs_x})
    IN  [i \in DOMAIN seqs_x |->
            bracketed[i] \o [k \in 1..(max_size - Len(bracketed[i])) |-> PAD]]

PrepareDataDoc(seqs_x) ==
    LET x_split == TgtDocSeqSplit(seqs_x)
    IN  [s \in DOMAIN x_split |-> PrepareData(x_split[s])]

\* A token of a flat batch text: a marker or the real token of its place.
Tok(shape, i) ==
    CASE shape[i] = "eos" -> EOS
      [] shape[i] = "bos" -> BOS
      [] OTHER -> Word(i)

\* Cut points of a text of L tokens into n documents (0 = c0 <= c1 <= ... = L).
Cuts(L, n) ==
    {c \in [0..n -> 0..L] :
        /\ c[0] = 0
        /\ c[n] = L
        /\ \A k \in 1..n : c[k - 1] <= c[k]}

\* Every batch of 1..MaxDocs documents of at most MaxBatchTokens tokens in
\* all, each token a start marker, an end marker or a real token.
SplitStart ==
    /\ sp_pc = "ready"
    /\ \E L \in 0..MaxBatchTokens :
         \E shape \in [1..L -> {"eos", "bos", "w"}] :
           \E n \in 1..MaxDocs :
             \E c \in Cuts(L, n) :
               sp_seqs = [d \in 1..n |->
                            [j \in 1..(c[d] - c[d - 1]) |->
                                Tok(shape, c[d - 1] + j)]]
    /\ sp_batch = <<>>
    /\ words_norm = <<>>

SplitIdle ==
    /\ sp_pc = "idle"
    /\ sp_seqs = <<>>
    /\ sp_batch = <<>>
    /\ words_norm = <<>>

CallPrepareDataDoc ==
    /\ sp_pc = "ready"
    /\ sp_batch' = PrepareDataDoc(sp_seqs)
    /\ sp_pc' = "done"
    /\ UNCHANGED <<sp_seqs, words_norm>>
    /\ UNCHANGED <<shardVars, trainVars, cacheVars, docVars,
                   outVars, mapVars, beamVars>>

\* y_label = y_sents[:, 1:]
YLabel(y_sents) == [d \in DOMAIN y_sents |-> SubSeq(y_sents[d], 2, Len(y_sents[d]))]

\* words_norm = y_label.ne(PAD).float().sum(1)
WordsNorm(y_label) ==
    [d \in DOMAIN y_label |->
        Len(SelectSeq(y_label[d], LAMBDA id : id # PAD))]

\* The sentence loop of compute_forward with norm_by_words (main.py
\* 250-295) over y_batch = prepare_data_doc(seqs_y): the divisors of
\* loss.div(words_norm) at every sentence position.
NormByWords ==
    /\ sp_pc = "done"
    /\ words_norm' = [pos \in DOMAIN sp_batch |->
                         WordsNorm(YLabel(sp_batch[pos]))]
    /\ sp_pc' = "normed"
    /\ UNCHANGED <<sp_seqs, sp_batch>>
    /\ UNCHANGED <<shardVars, trainVars, cacheVars, docVars,
                   outVars, mapVars, beamVars>>

\* ------------------------------------------------------------------------
\* src_doc_sents_map (main.py 158-179) and the per-sentence mask of global
\* encoding (main.py 235-242 and 266-269, 385-395 and 406-410, 1003-1010
\* and 1023-1027)
\* ------------------------------------------------------------------------

\* if id == BOS
StartsSentenceAtEos(id) == id = EOS

StartsSentence(id) == id = BOS

\* The loop over one row (main.py 163-172) from position j on, with n the
\* running n_sents and rank the running cur_rank.
RECURSIVE ScanRow(_, _, _, _, _, _)
ScanRow(row, j, n, rank, map_acc, rank_acc) ==
    IF j > Len(row)
    THEN [sent_mapping |-> map_acc, sent_rank |-> rank_acc, n_sents |-> n]
    ELSE LET n2 == IF StartsSentence(row[j]) THEN n + 1 ELSE n
             rank2 == IF StartsSentence(row[j]) THEN 0 ELSE rank
         IN  ScanRow(row, j + 1, n2, rank2 + 1,
                     Append(map_acc, n2), Append(rank_acc, rank2))

\* src_doc_sents_map(src_seqs): <<res, sent_rank, max_n_sents>>
SrcDocSentsMap(src_seqs) ==
    LET rows == [i \in DOMAIN src_seqs |->
                    ScanRow(src_seqs[i], 1, -1, 0, <<>>, <<>>)]
    IN  [res |-> [i \in DOMAIN src_seqs |-> rows[i].sent_mapping],
         sent_rank |-> [i \in DOMAIN src_seqs |-> rows[i].sent_rank],
         max_n_sents |-> Max({0} \cup {rows[i].n_sents : i \in DOMAIN src_seqs})]

\* The encoder's padding mask of a padded batch: TRUE where a row is PAD.
EncoderMask(src_seqs) ==
    [i \in DOMAIN src_seqs |->
        [j \in DOMAIN src_seqs[i] |-> src_seqs[i][j] = PAD]]

\* torch.cat([t, t], dim=1)
CatTwice(t) == [i \in DOMAIN t |-> t[i] \o t[i]]

\* is_not_current_sents = sents_mapping.ne(sents_no)
IsNotCurrentSentsUpTo(mapping, k) ==
    [i \in DOMAIN mapping |-> [j \in DOMAIN mapping[i] |-> mapping[i][j] > k]]

IsNotCurrentSents(mapping, k) ==
    [i \in DOMAIN mapping |-> [j \in DOMAIN mapping[i] |-> mapping[i][j] # k]]

\* torch.where(is_not_current_sents, is_not_current_sents, enc_mask)
CurrentSentMask(mapping, mask, k) ==
    LET is_not_current_sents == IsNotCurrentSents(mapping, k)
    IN  [i \in DOMAIN mapping |->
            [j \in DOMAIN mapping[i] |->
                IF is_not_current_sents[i][j] THEN is_not_current_sents[i][j]
                ELSE mask[i][j]]]

MapDocs == UNION {[1..n -> {BOS, EOS, Word(1)}] : n \in 0..MaxMapLen}

\* Every batch of 1..MaxMapDocs documents of at most MaxMapLen tokens, a
\* token being a start marker, an end marker or a real token.
MapStart ==
    /\ mp_pc = "ready"
    /\ mp_seqs \in UNION {[1..n -> MapDocs] : n \in 1..MaxMapDocs}
    /\ global_cat \in BOOLEAN
    /\ mp_x = <<>>
    /\ map_res = <<>>
    /\ sents_mapping = <<>>
    /\ mp_enc_mask = <<>>
    /\ mp_sents_no = 0
    /\ mp_sent_mask = <<>>

MapIdle ==
    /\ mp_pc = "idle"
    /\ mp_seqs = <<>>
    /\ global_cat = FALSE
    /\ mp_x = <<>>
    /\ map_res = <<>>
    /\ sents_mapping = <<>>
    /\ mp_enc_mask = <<>>
    /\ mp_sents_no = 0
    /\ mp_sent_mask = <<>>

\* The batch is padded and encoded as a whole (main.py 765 and 235-242).
EncodeGlobal ==
    /\ mp_pc = "ready"
    /\ LET x == PrepareData(mp_seqs)
           r == SrcDocSentsMap(x)
       IN  /\ mp_x' = x
           /\ map_res' = r
           /\ sents_mapping' = IF global_cat THEN CatTwice(r.res) ELSE r.res
           /\ mp_enc_mask' = IF global_cat THEN CatTwice(EncoderMask(x))
                             ELSE EncoderMask(x)
    /\ mp_pc' = "loop"
    /\ UNCHANGED <<mp_seqs, global_cat, mp_sents_no, mp_sent_mask>>
    /\ UNCHANGED <<shardVars, splitVars, trainVars, cacheVars,
                   docVars, outVars, beamVars>>

\* One round of the sentence loop builds the mask of its position
\* (main.py 266-269).
BuildSentMask ==
    /\ mp_pc = "loop"
    /\ mp_sents_no < Len(PrepareDataDoc(mp_seqs))
    /\ mp_sent_mask' = CurrentSentMask(sents_mapping, mp_enc_mask,
                                            mp_sents_no)
    /\ mp_sents_no' = mp_sents_no + 1
    /\ UNCHANGED <<mp_pc, mp_seqs, global_cat, mp_x, map_res, sents_mapping,
                   mp_enc_mask>>
    /\ UNCHANGED <<shardVars, splitVars, trainVars, cacheVars,
                   docVars, outVars, beamVars>>

\* The sentence loop is over.
EndSentLoop ==
    /\ mp_pc = "loop"
    /\ mp_sents_no = Len(PrepareDataDoc(mp_seqs))
    /\ mp_pc' = "done"
    /\ UNCHANGED <<mp_seqs, global_cat, mp_x, map_res, sents_mapping,
                   mp_enc_mask,
                   mp_sents_no, mp_sent_mask>>
    /\ UNCHANGED <<shardVars, splitVars, trainVars, cacheVars,
                   docVars, outVars, beamVars>>

\* ------------------------------------------------------------------------
\* train (main.py 508-923): the epoch loop and its bookkeeping
\* ------------------------------------------------------------------------

\* Values a run may be configured with; a run takes at most MaxUpdates
\* training batches in all, (max_epochs + 1) * len(training_iterator).
PatienceValues == {1, 2}
UpdateCycles == {1, 2}
SaveFreqs == {2}
BleuValidFreqs == {1, 2}
LossValidFreqs == {3}
BleuWarmups == {0}

\* Documents per training batch, BLEU scores and validation losses that occur.
TrainBatchSizes == {3}
BleuScores == {0, 1, 2}
LossValues == {1, 2}

\* What the try block of one batch may raise: nothing, a RuntimeError whose
\* message contains 'out of memory', another RuntimeError, another exception.
FaultKinds == {"none", "oom", "runtime", "other"}

NoFault == [kind |-> "none", at |-> 0]

\* should_trigger_by_steps(global_step, n_epoch, every_n_step, min_step),
\* debug off.
ShouldTriggerBySteps(global_step, every_n_step, min_step) ==
    /\ every_n_step > 0
    /\ global_step >= min_step
    /\ global_step # 0
    /\ global_step % every_n_step = 0

\* The number of shards split_shard yields for a batch of n documents.
NShards(n, cycle) ==
    Len(SplitShard(BatchOf([i \in 1..n |-> 1]), cycle, [i \in 1..n |-> i]))

\* except RuntimeError as e: if 'out of memory' in str(e)
HandledAnyRuntimeError(kind) == kind \in {"oom", "runtime"}

HandledAsOom(kind) == kind = "oom"

\* if not is_early_stop / if is_early_stop is False
MaySaveAlways(early) == TRUE

MaySave(early) == ~early

\* if valid_bleu >= best_valid_bleu
IsNewBestStrict(valid_bleu, best_valid_bleu) == valid_bleu > best_valid_bleu

IsNewBest(valid_bleu, best_valid_bleu) == valid_bleu >= best_valid_bleu

\* if bad_count >= training_configs['early_stop_patience'] and eidx > 0
EarlyStopDueAnyEpoch(bad, patience, epoch) == bad >= patience

EarlyStopDue(bad, patience, epoch) == bad >= patience /\ epoch > 0

AddToCollection(collections, key, value) ==
    [collections EXCEPT ![key] = Append(@, value)]

\* s[-1]
Last(s) == s[Len(s)]

\* model_collections = Collections(): nothing collected yet.
NoCollections == [uidx |-> <<>>, eidx |-> <<>>, bad_count |-> <<>>,
                  history_losses |-> <<>>, history_bleus |-> <<>>]

\* collections.get_collection(key, default): the values collected under
\* key, or default when there are none.
GetCollection(collections, key, default) ==
    IF key \in DOMAIN collections /\ collections[key] # <<>>
    THEN collections[key] ELSE default

\* What checkpoint_saver.save wrote: the collections, the state of model and
\* optimizer (known by the number of optimizer steps) and of the moving
\* average; run holds the counters of the run at that moment.
Checkpoint(collections, steps, ma_count, run) ==
    [exists |-> TRUE, collections |-> collections, optim_steps |-> steps,
     ma_steps |-> ma_count, run |-> run]

NoCheckpoint ==
    [exists |-> FALSE, collections |-> NoCollections, optim_steps |-> 0,
     ma_steps |-> 0,
     run |-> [eidx |-> 0, uidx |-> 0, bad_count |-> 0, oom_count |-> 0]]

\* checkpoint_saver.load_latest(..., collections=model_collections)
CollectionsAtStart(ckpt) ==
    IF ckpt.exists THEN ckpt.collections ELSE NoCollections

\* eidx = model_collections.get_collection("eidx", [0])[-1] and the three
\* lines after it (main.py 697-700).
CountersRead(collections) ==
    [eidx |-> Last(GetCollection(collections, "eidx", <<0>>)),
     uidx |-> Last(GetCollection(collections, "uidx", <<0>>)),
     bad_count |-> Last(GetCollection(collections, "bad_count", <<0>>)),
     oom_count |-> Last(GetCollection(collections, "oom_count", <<0>>))]

\* Python's None, as a configuration value and as a missing object.
None == "None"

\* normalization=n_samples_t*20: "assume that there are 20 sents per doc"
SentsPerDoc == 20

\* The scheduler built for a schedule_method (main.py 662-676): an object
\* for 'loss' and 'noam', None (after a warning) for any other name.
Scheduler(schedule_method) ==
    IF schedule_method \in {"loss", "noam"} THEN schedule_method ELSE None

\* if schedule_method is not None and schedule_method != "loss" (main.py 732)
StepsPerBatchAlways(schedule_method) == schedule_method # None

StepsPerBatch(schedule_method) ==
    schedule_method # None /\ schedule_method # "loss"

\* if schedule_method == "loss" (main.py 854)
StepsOnLossValidation(schedule_method) == schedule_method = "loss"

\* if ma is not None and eidx >= moving_average_start_epoch (main.py 789)
MaDue(ma, epoch, start_epoch) == ma # None /\ epoch >= start_epoch

\* The sizes of the shards split_shard yields for a batch of n documents.
ShardSizes(n, cycle) ==
    LET shards == SplitShard(BatchOf([i \in 1..n |-> 1]), cycle,
                             [i \in 1..n |-> i])
    IN  [k \in DOMAIN shards |-> Len(shards[k][1])]

\* normalization=n_samples_t*20 with n_samples_t = len(seqs_x), the
\* documents of the batch (main.py 750, 774); the shard is seqs_x_t.
NormalizationByShard(n_samples_t, n_shard_docs) == n_shard_docs * SentsPerDoc

Normalization(n_samples_t, n_shard_docs) == n_samples_t * SentsPerDoc

\* What compute_forward was called with for the first n shards of a batch.
ShardNorms(n_samples_t, cycle, n) ==
    LET sizes == ShardSizes(n_samples_t, cycle)
    IN  [k \in 1..Min2(n, Len(sizes)) |->
            [docs |-> sizes[k],
             batch |-> n_samples_t,
             normalization |-> Normalization(n_samples_t, sizes[k])]]

\* The parameters of the model after a number of optimizer steps, and what
\* ma.export_ma_params() gives after a number of ma.step() calls.
LiveParams(steps) == [kind |-> "live", at |-> steps]

MaParams(steps) == [kind |-> "ma", at |-> steps]

NoParams == [kind |-> "none", at |-> 0]

NoValidation == [loss |-> NoParams, bleu |-> NoParams]

\* if ma is not None: origin_state_dict = deepcopy(nmt_model.state_dict());
\* nmt_model.load_state_dict(ma.export_ma_params(), strict=False)
SwappedIn(ma, params, ma_params) == IF ma # None THEN ma_params ELSE params

\* if ma is not None: nmt_model.load_state_dict(origin_state_dict)
RestoredKept(ma, origin_state_dict, params) == params

Restored(ma, origin_state_dict, params) ==
    IF ma # None THEN origin_state_dict ELSE params

\* The state before the epoch loop (main.py 608-714) of a fresh run with
\* training_configs among configs and a schedule_method among methods.
RunStart(configs, methods) ==
    /\ tr_pc = "loop"
    /\ training_configs \in configs
    /\ optimizer_configs \in [schedule_method : methods]
    /\ sched_steps = <<>>
    /\ ma_steps = 0
    /\ model_params = LiveParams(0)
    /\ valid_params = NoValidation
    /\ shard_norms = <<>>
    /\ epoch_len \in 1..MaxUpdates
    /\ (training_configs.max_epochs + 1) * epoch_len <= MaxUpdates
    /\ eidx = 0
    /\ uidx = 0
    /\ batch_no = 0
    /\ bad_count = 0
    /\ oom_count = 0
    /\ is_early_stop = FALSE
    /\ grads = 0
    /\ optim_steps = 0
    /\ fault = NoFault
    /\ model_collections = NoCollections
    /\ ckpt_saved = {}
    /\ latest_ckpt = NoCheckpoint
    /\ reloads = 0
    /\ best_saved = {}
    /\ final_dumped = {}

\* Runs without scheduler and moving average, over the settings of
\* validation, checkpointing and early stop.
TrainStart ==
    RunStart([early_stop_patience : PatienceValues,
              update_cycle : UpdateCycles,
              save_freq : SaveFreqs,
              bleu_valid_freq : BleuValidFreqs,
              loss_valid_freq : LossValidFreqs,
              bleu_valid_warmup : BleuWarmups,
              moving_average_method : {None},
              moving_average_start_epoch : {0},
              max_epochs : 0..(MaxUpdates - 1)],
             {None})

\* The same runs with one setting of patience, update cycle and validation
\* frequencies.
LiveStart ==
    RunStart([early_stop_patience : {1},
              update_cycle : {1},
              save_freq : SaveFreqs,
              bleu_valid_freq : {1},
              loss_valid_freq : LossValidFreqs,
              bleu_valid_warmup : BleuWarmups,
              moving_average_method : {None},
              moving_average_start_epoch : {0},
              max_epochs : 0..(MaxUpdates - 1)],
             {None})

\* Runs that write a checkpoint at every update or at every second one
\* and may be started again from it.
ResumeSaveFreqs == {1, 2}

ResumeStart ==
    RunStart([early_stop_patience : {1},
              update_cycle : {1},
              save_freq : ResumeSaveFreqs,
              bleu_valid_freq : {1},
              loss_valid_freq : LossValidFreqs,
              bleu_valid_warmup : BleuWarmups,
              moving_average_method : {None},
              moving_average_start_epoch : {0},
              max_epochs : 0..(MaxUpdates - 1)],
             {None})

\* Runs over the settings of scheduler and moving average.
ScheduleMethods == {None, "loss", "noam", "cosine"}
MovingAverageMethods == {None, "sma"}
MovingAverageStartEpochs == {0, 1}

SchedStart ==
    RunStart({c \in [early_stop_patience : {1},
                     update_cycle : {1},
                     save_freq : SaveFreqs,
                     bleu_valid_freq : {1},
                     loss_valid_freq : {2},
                     bleu_valid_warmup : BleuWarmups,
                     moving_average_method : MovingAverageMethods,
                     moving_average_start_epoch : MovingAverageStartEpochs,
                     max_epochs : 0..(MaxUpdates - 1)] :
                c.moving_average_method = None
                    => c.moving_average_start_epoch = 0},
             ScheduleMethods)

TrainIdle ==
    /\ tr_pc = "idle"
    /\ training_configs = <<>>
    /\ optimizer_configs = <<>>
    /\ sched_steps = <<>>
    /\ ma_steps = 0
    /\ model_params = NoParams
    /\ valid_params = NoValidation
    /\ shard_norms = <<>>
    /\ epoch_len = 0
    /\ eidx = 0
    /\ uidx = 0
    /\ batch_no = 0
    /\ bad_count = 0
    /\ oom_count = 0
    /\ is_early_stop = FALSE
    /\ grads = 0
    /\ optim_steps = 0
    /\ fault = NoFault
    /\ model_collections = <<>>
    /\ ckpt_saved = {}
    /\ latest_ckpt = NoCheckpoint
    /\ reloads = 0
    /\ best_saved = {}
    /\ final_dumped = {}

\* Where in the try block a failure may strike: in the forward/backward of
\* shard 1..n_shards or, as n_shards + 1, in optim.step().
FaultPoints(kind, n_shards) ==
    IF kind = "none" THEN {0} ELSE 1..(n_shards + 1)

\* What loss_validation / bleu_validation may return at update index u
\* (0 stands for "not run at this step").
ValidLosses(u) ==
    IF ShouldTriggerBySteps(u, training_configs.loss_valid_freq, 0)
    THEN LossValues ELSE {0}

ValidBleus(u) ==
    IF ShouldTriggerBySteps(u, training_configs.bleu_valid_freq,
                            training_configs.bleu_valid_warmup)
    THEN BleuScores ELSE {0}

\* The part of one loop iteration after the try block (main.py 789-914),
\* for update index u, with the out-of-memory count and early-stop flag the
\* try block left: checkpointing, loss validation, BLEU validation.
AfterStep(u, v_loss, v_bleu, sched, live, ma_count) ==
    LET ma == training_configs.moving_average_method
        do_save == ShouldTriggerBySteps(u, training_configs.save_freq, 0)
        do_loss == ShouldTriggerBySteps(u, training_configs.loss_valid_freq, 0)
        do_bleu == ShouldTriggerBySteps(u, training_configs.bleu_valid_freq,
                                        training_configs.bleu_valid_warmup)
        c1 == IF do_save
              THEN AddToCollection(
                     AddToCollection(
                       AddToCollection(model_collections, "uidx", u),
                       "eidx", eidx),
                     "bad_count", bad_count)
              ELSE model_collections
        c2 == IF do_loss THEN AddToCollection(c1, "history_losses", v_loss)
              ELSE c1
        c3 == IF do_bleu THEN AddToCollection(c2, "history_bleus", v_bleu)
              ELSE c2
        best_valid_bleu == Max(Range(c3.history_bleus))
        new_best == do_bleu /\ IsNewBest(v_bleu, best_valid_bleu)
        worse == do_bleu /\ ~IsNewBest(v_bleu, best_valid_bleu)
        \* loss validation (main.py 832-855)
        loss_on == SwappedIn(ma, live, MaParams(ma_count))
        p1 == IF do_loss THEN Restored(ma, live, loss_on) ELSE live
        best_valid_loss == Min(Range(c2.history_losses))
        \* BLEU validation (main.py 865-910)
        bleu_on == SwappedIn(ma, p1, MaParams(ma_count))
        p2 == IF do_bleu THEN Restored(ma, p1, bleu_on) ELSE p1
    IN  /\ model_collections' = c3
        /\ sched_steps' =
              IF do_loss /\ StepsOnLossValidation(
                               optimizer_configs.schedule_method)
              THEN Append(sched, [at |-> "loss_validation", uidx |-> u,
                                  arg |-> best_valid_loss])
              ELSE sched
        /\ valid_params' = [loss |-> IF do_loss THEN loss_on ELSE NoParams,
                            bleu |-> IF do_bleu THEN bleu_on ELSE NoParams]
        /\ model_params' = p2
        /\ ckpt_saved' = IF do_save /\ MaySave(is_early_stop)
                         THEN ckpt_saved \cup {u} ELSE ckpt_saved
        /\ latest_ckpt' =
              IF do_save /\ MaySave(is_early_stop)
              THEN Checkpoint(c1, live.at, ma_count,
                              [eidx |-> eidx, uidx |-> u,
                               bad_count |-> bad_count,
                               oom_count |-> oom_count'])
              ELSE latest_ckpt
        /\ bad_count' = IF new_best THEN 0
                        ELSE IF worse THEN bad_count + 1 ELSE bad_count
        /\ final_dumped' = IF new_best /\ MaySave(is_early_stop)
                           THEN final_dumped \cup {u} ELSE final_dumped
        /\ best_saved' = IF new_best /\ MaySave(is_early_stop)
                         THEN best_saved \cup {u} ELSE best_saved
        /\ is_early_stop' =
              IF worse /\ EarlyStopDue(bad_count + 1,
                                       training_configs.early_stop_patience,
                                       eidx)
              THEN TRUE ELSE is_early_stop

\* One iteration of "for batch in training_iter" (main.py 726-914).
TrainBatch ==
    /\ tr_pc = "loop"
    /\ batch_no < epoch_len
    /\ uidx' = uidx + 1
    /\ batch_no' = batch_no + 1
    /\ LET method == optimizer_configs.schedule_method
           ma == training_configs.moving_average_method
           cycle == training_configs.update_cycle
       IN
       IF StepsPerBatch(method) /\ Scheduler(method) = None
       THEN \* scheduler.step(global_step=uidx) on None raises AttributeError
            \* before the try block: the run ends
            /\ fault' = [kind |-> "no_scheduler", at |-> 0]
            /\ tr_pc' = "crashed"
            /\ UNCHANGED <<grads, optim_steps, oom_count, sched_steps,
                           ma_steps, model_params, valid_params, shard_norms,
                           model_collections, ckpt_saved, latest_ckpt,
                           bad_count,
                           final_dumped, best_saved, is_early_stop>>
       ELSE
       \E n_samples_t \in TrainBatchSizes, kind \in FaultKinds :
         LET n_shards == NShards(n_samples_t, cycle)
             sched == IF StepsPerBatch(method)
                      THEN Append(sched_steps,
                                  [at |-> "batch", uidx |-> uidx + 1,
                                   arg |-> uidx + 1])
                      ELSE sched_steps
         IN  \E at \in FaultPoints(kind, n_shards) :
               /\ fault' = IF kind = "none" THEN NoFault
                           ELSE [kind |-> kind, at |-> at]
               /\ shard_norms' =
                     ShardNorms(n_samples_t, cycle,
                                IF kind = "none" THEN n_shards ELSE at)
               /\ IF kind = "none"
                  THEN \* every shard ran forward/backward, then optim.step()
                       /\ grads' = n_shards
                       /\ optim_steps' = optim_steps + 1
                       /\ oom_count' = oom_count
                       /\ tr_pc' = "loop"
                  ELSE IF HandledAsOom(kind)
                  THEN \* caught: count it and zero the gradients
                       /\ grads' = 0
                       /\ optim_steps' = optim_steps
                       /\ oom_count' = oom_count + 1
                       /\ tr_pc' = "loop"
                  ELSE \* raise e: the run ends inside the try block
                       /\ grads' = at - 1
                       /\ optim_steps' = optim_steps
                       /\ oom_count' = oom_count
                       /\ tr_pc' = "crashed"
               /\ IF kind = "none" \/ HandledAsOom(kind)
                  THEN LET ma_count ==
                             IF MaDue(ma, eidx,
                                  training_configs.moving_average_start_epoch)
                             THEN ma_steps + 1 ELSE ma_steps
                           live == LiveParams(IF kind = "none"
                                              THEN optim_steps + 1
                                              ELSE optim_steps)
                       IN  /\ ma_steps' = ma_count
                           /\ \E v_loss \in ValidLosses(uidx + 1),
                                 v_bleu \in ValidBleus(uidx + 1) :
                                AfterStep(uidx + 1, v_loss, v_bleu, sched,
                                          live, ma_count)
                  ELSE /\ sched_steps' = sched
                       /\ UNCHANGED <<ma_steps, model_params, valid_params>>
                       /\ UNCHANGED <<model_collections, ckpt_saved,
                                      latest_ckpt,
                                      bad_count, final_dumped, best_saved,
                                      is_early_stop>>
    /\ UNCHANGED <<training_configs, optimizer_configs, epoch_len, eidx,
                   reloads>>
    /\ UNCHANGED <<shardVars, splitVars, cacheVars, docVars,
                   outVars, mapVars, beamVars>>

\* if eidx > training_configs["max_epochs"]: break
LoopEndsOnEarlyStop(epoch, max_epochs) == epoch > max_epochs \/ is_early_stop

LoopEnds(epoch, max_epochs) == epoch > max_epochs

\* training_iter is exhausted (main.py 916-923).
EndEpoch ==
    /\ tr_pc = "loop"
    /\ batch_no = epoch_len
    /\ eidx' = eidx + 1
    /\ batch_no' = 0
    /\ tr_pc' = IF LoopEnds(eidx + 1, training_configs.max_epochs)
                THEN "done" ELSE "loop"
    /\ UNCHANGED <<training_configs, epoch_len, uidx, bad_count, oom_count,
                   is_early_stop, grads, optim_steps, fault,
                   optimizer_configs, sched_steps, ma_steps, model_params,
                   valid_params, shard_norms,
                   model_collections, ckpt_saved, latest_ckpt, reloads,
                   best_saved, final_dumped>>
    /\ UNCHANGED <<shardVars, splitVars, cacheVars, docVars,
                   outVars, mapVars, beamVars>>

\* The run is started again with --reload, after it ended or was stopped
\* at any point (main.py 608-714): load_latest puts back what the latest
\* checkpoint holds, if there is one, and the counters are read from the
\* collections.
Reload ==
    /\ tr_pc \in {"loop", "done", "crashed"}
    /\ reloads < MaxReloads
    /\ LET c == CollectionsAtStart(latest_ckpt)
           counters == CountersRead(c)
       IN  /\ counters.uidx
                + (training_configs.max_epochs + 1 - counters.eidx) * epoch_len
                   <= MaxUpdates
           /\ model_collections' = c
           /\ eidx' = counters.eidx
           /\ uidx' = counters.uidx
           /\ bad_count' = counters.bad_count
           /\ oom_count' = counters.oom_count
    /\ reloads' = reloads + 1
    /\ optim_steps' = latest_ckpt.optim_steps
    /\ ma_steps' = latest_ckpt.ma_steps
    /\ model_params' = LiveParams(latest_ckpt.optim_steps)
    /\ valid_params' = NoValidation
    /\ shard_norms' = <<>>
    /\ tr_pc' = "loop"
    /\ batch_no' = 0
    /\ is_early_stop' = FALSE
    /\ grads' = 0
    /\ fault' = NoFault
    /\ UNCHANGED <<training_configs, optimizer_configs, epoch_len,
                   sched_steps, ckpt_saved, latest_ckpt, best_saved,
                   final_dumped>>
    /\ UNCHANGED <<shardVars, splitVars, cacheVars, docVars,
                   outVars, mapVars, beamVars>>

\* ------------------------------------------------------------------------
\* The output of translate (main.py 985-1071) and bleu_validation (376-469)
\* ------------------------------------------------------------------------

\* The token the best beam holds for sentence position pos of the document
\* numbered num; a written line is known by the ids of its tokens.
SentStride == MaxOutSents + 2

SentWord(num, pos) == Word(num * SentStride + pos)

NumOf(line) == (line[1] - BOS - 1) \div SentStride

PosOf(line) == (line[1] - BOS - 1) % SentStride

\* What beam_search returns for one document at one position: the beams,
\* best first, each a padded list of word ids.
WordIds(num, pos, shape) ==
    <<IF shape = "empty" THEN <<EOS, PAD>> ELSE <<SentWord(num, pos), EOS>>,
      <<SentWord(num, 0), EOS>>>>

\* translate, main.py 1046: the best beam without PAD and EOS
TranslateTokens(sent_t) ==
    SelectSeq(sent_t[1], LAMBDA wid : wid # PAD /\ wid # EOS)

\* bleu_validation, main.py 429-435: the best beam without PAD, up to the
\* first EOS
BleuTokens(sent_t) ==
    LET line == SelectSeq(sent_t[1], LAMBDA wid : wid # PAD)
        stop == {i \in DOMAIN line : line[i] = EOS}
    IN  IF stop = {} THEN line
        ELSE SubSeq(line, 1, (CHOOSE i \in stop : \A j \in stop : i <= j) - 1)

XTokens(fn, sent_t) ==
    IF fn = "translate" THEN TranslateTokens(sent_t) ELSE BleuTokens(sent_t)

\* if len(x_tokens) > 0: trans_sents2doc[iter_num].append(...)
AppendedAlways(x_tokens) == TRUE

Appended(x_tokens) == Len(x_tokens) > 0

\* trans_sents2doc of one batch (main.py 1013-1049, 399-441): per document
\* of the batch, the non-empty results in the order of the positions.
TransSents2Doc(fn, seq_nums, n_pos, shape) ==
    [ii \in 1..Len(seq_nums) |->
        SelectSeq([pos \in 1..n_pos |->
                      XTokens(fn, WordIds(seq_nums[ii], pos, shape[ii, pos]))],
                  Appended)]

\* trans_docs = [trans_docs[ii] for ii in origin_order]
ReorderInverse(docs, origin_order) ==
    [k \in DOMAIN origin_order |->
        docs[CHOOSE ii \in DOMAIN origin_order : origin_order[ii] = k]]

Reorder(docs, origin_order) ==
    [k \in DOMAIN origin_order |-> docs[origin_order[k]]]

BatchCuts(n, m) == {c \in Cuts(n, m) : \A k \in 1..m : c[k - 1] < c[k]}

\* valid_iter numbers the documents 0..n-1 and hands them out in batches
\* in any order.
OutStart ==
    /\ tl_pc = "run"
    /\ tl_fn \in {"translate", "bleu_validation"}
    /\ \E n \in 1..MaxOutDocs :
         \E p \in Perms(n) :
           \E m \in 1..n :
             \E c \in BatchCuts(n, m) :
               tl_batches = [k \in 1..m |->
                               [j \in 1..(c[k] - c[k - 1]) |->
                                   p[c[k - 1] + j] - 1]]
    /\ numbers = <<>>
    /\ trans_docs = <<>>
    /\ trans_sents = <<>>
    /\ tl_translated = {}

OutIdle ==
    /\ tl_pc = "idle"
    /\ tl_fn = "none"
    /\ tl_batches = <<>>
    /\ numbers = <<>>
    /\ trans_docs = <<>>
    /\ trans_sents = <<>>
    /\ tl_translated = {}

\* One round of 'for batch in valid_iter' (main.py 996-1051, 376-442).
TranslateBatch ==
    /\ tl_pc = "run"
    /\ tl_batches # <<>>
    /\ LET seq_nums == Head(tl_batches)
       IN  \E n_pos \in 1..MaxOutSents :
             \E shape \in [(1..Len(seq_nums)) \X (1..n_pos) ->
                              {"empty", "words"}] :
               /\ numbers' = numbers \o seq_nums
               /\ trans_docs' = trans_docs \o
                     TransSents2Doc(tl_fn, seq_nums, n_pos, shape)
               /\ tl_translated' = tl_translated \cup
                     {<<seq_nums[ii], pos>> :
                        <<ii, pos>> \in {x \in DOMAIN shape :
                                            shape[x] = "words"}}
    /\ tl_batches' = Tail(tl_batches)
    /\ UNCHANGED <<tl_pc, tl_fn, trans_sents>>
    /\ UNCHANGED <<shardVars, splitVars, trainVars, cacheVars,
                   docVars, mapVars, beamVars>>

\* After the loop (main.py 1052-1071, 444-463): the documents are put back
\* in corpus order and their sentences written one per line.
WriteTranslation ==
    /\ tl_pc = "run"
    /\ tl_batches = <<>>
    /\ \E origin_order \in Argsort(numbers) :
          /\ trans_docs' = Reorder(trans_docs, origin_order)
          /\ trans_sents' = Flatten(Reorder(trans_docs, origin_order))
    /\ tl_pc' = "done"
    /\ UNCHANGED <<tl_fn, tl_batches, numbers, tl_translated>>
    /\ UNCHANGED <<shardVars, splitVars, trainVars, cacheVars,
                   docVars, mapVars, beamVars>>

\* ------------------------------------------------------------------------
\* The shared memory cache and D2D.forward / D2D.decode (D2D.py 59-97)
\* ------------------------------------------------------------------------
mem_len == 4

\* A tensor is known by its kind and by the units (batch b, sentence
\* position s, step t) whose data it holds.
Unit(b, s, t) == [b |-> b, s |-> s, t |-> t]

Tensor(kind, units) == [k |-> kind, v |-> units]

NoTensor == Tensor("none", <<>>)

NoCall == [fn |-> "none", first |-> FALSE, b |-> 0,
           cache_before |-> <<>>, mask_before |-> NoTensor,
           enc_mask |-> NoTensor, mems_in |-> <<>>, mems_out |-> <<>>]

\* The last mem_len units of a memory.
CapMem(units) ==
    IF Len(units) <= mem_len THEN units
    ELSE SubSeq(units, Len(units) - mem_len + 1, Len(units))

\* The memory decoder called with the positional arguments args (after the
\* target input and the encoder output).  Its class is not part of the
\* sources at hand, so its parameter list is either (data, enc_out,
\* enc_mask, *mems), as D2D.forward calls it, or (data, enc_out, *mems), as
\* D2D.decode calls it; an argument that is not given is NoTensor.  It
\* returns, per layer, the memory it was given for that layer followed by
\* the hidden state of this call, cut to mem_len.
MemDecoder(sig, args, unit) ==
    LET enc_mask == IF sig = "mask_then_mems" /\ Len(args) >= 1
                    THEN args[1] ELSE NoTensor
        mems == IF sig = "mask_then_mems"
                THEN SubSeq(args, 2, Len(args)) ELSE args
    IN  [enc_mask |-> enc_mask,
         mems_in |-> mems,
         mems_out |-> [i \in 1..NLayers |->
                         Tensor("mem",
                                CapMem((IF i <= Len(mems) THEN mems[i].v
                                        ELSE <<>>) \o <<unit>>))]]

\* D2D.forward line 67: self.decoder(dec_inp_T, enc_out_T, enc_mask_T,
\*                                  *ctx.memory_cache)
D2DForwardArgs(enc_mask, cache) == <<enc_mask>> \o cache

\* D2D.decode line 89: self.decoder(dec_inp_T, enc_out_T, *ctx.memory_cache)
D2DDecodeArgs(enc_output_mask, cache) == cache

\* ctx.memory_cache = tuple(); ctx.memory_mask = None
FlushedCache == <<>>

\* One call of the memory decoder from method fn, and the assignment of
\* what it returns to ctx.memory_cache.
DecoderCall(fn, args, unit, first) ==
    LET r == MemDecoder(dec_signature, args, unit)
    IN  /\ dec_call' = [fn |-> fn, first |-> first, b |-> unit.b,
                        cache_before |-> memory_cache,
                        mask_before |-> memory_mask,
                        enc_mask |-> r.enc_mask,
                        mems_in |-> r.mems_in,
                        mems_out |-> r.mems_out]
        /\ memory_cache' = r.mems_out

CacheStart ==
    /\ memory_cache = FlushedCache
    /\ memory_mask = NoTensor
    /\ dec_signature \in {"mask_then_mems", "mems_only"}
    /\ dec_call = NoCall

CacheIdle ==
    /\ memory_cache = FlushedCache
    /\ memory_mask = NoTensor
    /\ dec_signature = "none"
    /\ dec_call = NoCall

DocIdle ==
    /\ d2d_calls = 0
    /\ doc_pc = "idle"
    /\ doc_driver = "none"
    /\ doc_kind = "none"
    /\ bno = 0
    /\ n_sents = 0
    /\ sents_no = 0
    /\ beam_step = 0

\* D2D used directly: model(src_seq, tgt_seq) and model.decode(...), in any
\* order, with cache resets in between.
D2DStart ==
    /\ d2d_calls = 0
    /\ doc_pc = "direct"
    /\ doc_driver = "none"
    /\ doc_kind = "none"
    /\ bno = 0
    /\ n_sents = 0
    /\ sents_no = 0
    /\ beam_step = 0

D2DUnchanged ==
    /\ UNCHANGED <<doc_pc, doc_driver, doc_kind, bno, n_sents, sents_no,
                   beam_step>>
    /\ UNCHANGED <<shardVars, splitVars, trainVars,
                   outVars, mapVars, beamVars>>

\* D2D.forward (D2D.py 59-70)
CallForward ==
    /\ doc_pc = "direct"
    /\ d2d_calls < MaxCalls
    /\ d2d_calls' = d2d_calls + 1
    /\ LET unit == Unit(0, d2d_calls + 1, 0)
           enc_mask == Tensor("mask", <<unit>>)
       IN  DecoderCall("forward", D2DForwardArgs(enc_mask, memory_cache),
                       unit, FALSE)
    /\ UNCHANGED <<memory_mask, dec_signature>>
    /\ D2DUnchanged

\* D2D.decode (D2D.py 77-97)
CallDecode ==
    /\ doc_pc = "direct"
    /\ d2d_calls < MaxCalls
    /\ d2d_calls' = d2d_calls + 1
    /\ LET unit == Unit(0, d2d_calls + 1, 0)
           enc_output_mask == Tensor("mask", <<unit>>)
       IN  DecoderCall("decode", D2DDecodeArgs(enc_output_mask, memory_cache),
                       unit, FALSE)
    /\ UNCHANGED <<memory_mask, dec_signature>>
    /\ D2DUnchanged

\* A cache reset between calls, as the drivers do it.
D2DFlush ==
    /\ doc_pc = "direct"
    /\ dec_call # NoCall
    /\ memory_cache' = FlushedCache
    /\ memory_mask' = NoTensor
    /\ dec_call' = NoCall
    /\ UNCHANGED <<dec_signature, d2d_calls>>
    /\ D2DUnchanged

\* ------------------------------------------------------------------------
\* The decoder state of beam search: D2D.init_decoder, D2D.decode and
\* D2D.reorder_dec_states (D2D.py 77-135)
\* ------------------------------------------------------------------------

\* tile_batch(x, multiplier): every row of the batch multiplier times.
TileBatch(x, multiplier) ==
    Tensor(x.k, [i \in 1..(Len(x.v) * multiplier) |->
                    x.v[((i - 1) \div multiplier) + 1]])

\* D2D.init_decoder (D2D.py 99-114)
InitDecoder(outputs, expand_size) ==
    [ctx |-> IF expand_size > 1 THEN TileBatch(outputs.ctx, expand_size)
             ELSE outputs.ctx,
     ctx_mask |-> IF expand_size > 1
                  THEN TileBatch(outputs.ctx_mask, expand_size)
                  ELSE outputs.ctx_mask,
     enc_attn_caches |-> None,
     slf_attn_caches |-> None]

\* What D2D.decode does to the state (D2D.py 79-82, 94-95): the two caches
\* it read from the state are put back as they are.
DecodeStates(states) ==
    LET enc_attn_caches == states.enc_attn_caches
        slf_attn_caches == states.slf_attn_caches
    IN  [states EXCEPT !.enc_attn_caches = enc_attn_caches,
                       !.slf_attn_caches = slf_attn_caches]

\* tensor_gather_helper: row k of batch entry b of the result is row
\* gather_indices[b][k] (counted from 0) of batch entry b of gather_from.
TensorGatherHelper(gather_indices, gather_from, beam_size) ==
    Tensor(gather_from.k,
           [i \in DOMAIN gather_from.v |->
               LET b == ((i - 1) \div beam_size) + 1
                   k == ((i - 1) % beam_size) + 1
               IN  gather_from.v[(b - 1) * beam_size
                                  + gather_indices[b][k] + 1]])

\* D2D.reorder_dec_states (D2D.py 116-135): slf_attn_caches[0][0] of None
\* raises TypeError; otherwise every tensor of the caches is gathered.
ReorderDecStates(states, new_beam_indices, beam_size) ==
    IF states.slf_attn_caches = None
    THEN [raised |-> "TypeError", states |-> states]
    ELSE [raised |-> None,
          states |->
             [states EXCEPT !.slf_attn_caches =
                 [l \in DOMAIN states.slf_attn_caches |->
                     [t \in DOMAIN states.slf_attn_caches[l] |->
                         TensorGatherHelper(new_beam_indices,
                                            states.slf_attn_caches[l][t],
                                            beam_size)]]]]

NoStates == [ctx |-> NoTensor, ctx_mask |-> NoTensor,
             enc_attn_caches |-> None, slf_attn_caches |-> None]

NoReorder == [raised |-> None, before |-> NoStates,
              new_beam_indices |-> <<>>, beam_size |-> 0]

\* enc_outputs = model.encode(x) for a batch of 1..MaxDocs documents.
BeamStart ==
    /\ bs_pc = "encoded"
    /\ \E n \in 1..MaxDocs :
          enc_outputs = [ctx |-> Tensor("ctx", [i \in 1..n |-> i]),
                         ctx_mask |-> Tensor("mask", [i \in 1..n |-> i])]
    /\ dec_states = NoStates
    /\ bs_steps = 0
    /\ bs_call = NoReorder

BeamIdle ==
    /\ bs_pc = "idle"
    /\ enc_outputs = [ctx |-> NoTensor, ctx_mask |-> NoTensor]
    /\ dec_states = NoStates
    /\ bs_steps = 0
    /\ bs_call = NoReorder

BeamUnchanged ==
    UNCHANGED <<shardVars, splitVars, trainVars, docVars, outVars, mapVars>>

\* dec_states = model.init_decoder(enc_outputs, expand_size=beam_size)
CallInitDecoder ==
    /\ bs_pc = "encoded"
    /\ \E expand_size \in 1..MaxBeam :
          dec_states' = InitDecoder(enc_outputs, expand_size)
    /\ bs_pc' = "decoding"
    /\ UNCHANGED <<enc_outputs, bs_steps, bs_call, cacheVars>>
    /\ BeamUnchanged

\* next_scores, dec_states = model.decode(final_word_indices, dec_states):
\* the memory decoder is called with the stored cache (D2D.py 89) and the
\* state is given back (94-97).
CallDecodeStates ==
    /\ bs_pc = "decoding"
    /\ bs_steps < MaxSteps
    /\ LET unit == Unit(0, 1, bs_steps + 1)
       IN  DecoderCall("decode",
                       D2DDecodeArgs(dec_states.ctx_mask, memory_cache),
                       unit, bs_steps = 0)
    /\ dec_states' = DecodeStates(dec_states)
    /\ bs_steps' = bs_steps + 1
    /\ UNCHANGED <<bs_pc, enc_outputs, bs_call, memory_mask, dec_signature>>
    /\ BeamUnchanged

\* dec_states = model.reorder_dec_states(dec_states, new_beam_indices,
\*                                       beam_size)
CallReorderDecStates ==
    /\ bs_pc = "decoding"
    /\ LET batch_size == Len(enc_outputs.ctx.v)
           beam_size == Len(dec_states.ctx.v) \div batch_size
       IN  \E new_beam_indices \in
                [1..batch_size -> [1..beam_size -> 0..(beam_size - 1)]] :
             LET r == ReorderDecStates(dec_states, new_beam_indices, beam_size)
             IN  /\ bs_call' = [raised |-> r.raised,
                                before |-> dec_states,
                                new_beam_indices |-> new_beam_indices,
                                beam_size |-> beam_size]
                 /\ dec_states' = r.states
                 /\ bs_pc' = IF r.raised = None THEN "decoding" ELSE "raised"
    /\ UNCHANGED <<enc_outputs, bs_steps, cacheVars>>
    /\ BeamUnchanged

\* ------------------------------------------------------------------------
\* Specifications
\* ------------------------------------------------------------------------
ShardInit ==
    ShardStart /\ SplitIdle /\ TrainIdle /\ CacheIdle /\ DocIdle /\ OutIdle /\ MapIdle /\ BeamIdle

ShardNext == CallSplitShard

SpecShard == ShardInit /\ [][ShardNext]_vars

SplitInit ==
    SplitStart /\ ShardIdle /\ TrainIdle /\ CacheIdle /\ DocIdle /\ OutIdle /\ MapIdle /\ BeamIdle

SplitNext == CallPrepareDataDoc \/ NormByWords

SpecSplit == SplitInit /\ [][SplitNext]_vars

TrainInit ==
    TrainStart /\ ShardIdle /\ SplitIdle /\ CacheIdle /\ DocIdle /\ OutIdle /\ MapIdle /\ BeamIdle

TrainNext == TrainBatch \/ EndEpoch

SpecTrain == TrainInit /\ [][TrainNext]_vars

\* The loop runs on its own: whenever an iteration or the end of an epoch
\* can be taken it is taken.
LiveInit ==
    LiveStart /\ ShardIdle /\ SplitIdle /\ CacheIdle /\ DocIdle /\ OutIdle /\ MapIdle /\ BeamIdle

SpecTrainLive == LiveInit /\ [][TrainNext]_vars /\ WF_vars(TrainNext)

ResumeInit ==
    ResumeStart /\ ShardIdle /\ SplitIdle /\ CacheIdle /\ DocIdle /\ OutIdle /\ MapIdle /\ BeamIdle

ResumeNext == TrainBatch \/ EndEpoch \/ Reload

SpecResume == ResumeInit /\ [][ResumeNext]_vars

SchedInit ==
    SchedStart /\ ShardIdle /\ SplitIdle /\ CacheIdle /\ DocIdle /\ OutIdle /\ MapIdle /\ BeamIdle

SpecSched == SchedInit /\ [][TrainNext]_vars

D2DInit ==
    CacheStart /\ D2DStart /\ ShardIdle /\ SplitIdle /\ TrainIdle /\ OutIdle /\ MapIdle /\ BeamIdle

D2DNext == CallForward \/ CallDecode \/ D2DFlush

SpecD2D == D2DInit /\ [][D2DNext]_vars

BeamInit ==
    CacheStart /\ BeamStart /\ ShardIdle /\ SplitIdle /\ TrainIdle /\ DocIdle /\ OutIdle /\ MapIdle

BeamNext == CallInitDecoder \/ CallDecodeStates \/ CallReorderDecStates

SpecBeam == BeamInit /\ [][BeamNext]_vars

MapInit ==
    MapStart /\ ShardIdle /\ SplitIdle /\ TrainIdle /\ CacheIdle /\ DocIdle /\ OutIdle /\ BeamIdle

MapNext == EncodeGlobal \/ BuildSentMask \/ EndSentLoop

SpecMap == MapInit /\ [][MapNext]_vars

\* ------------------------------------------------------------------------
\* Properties
\* ------------------------------------------------------------------------

\* A row or document with padding and start/end markers removed.
Content(row) == SelectSeq(row, IsWord)

\* What prepare_data_doc holds of document d, over all sentence positions.
DocContent(d) == Flatten([s \in DOMAIN sp_batch |-> Content(sp_batch[s][d])])

\* The real tokens of a document that do not directly follow an end marker.
RECURSIVE NotAfterEos(_, _)
NotAfterEos(doc, i) ==
    IF i > Len(doc)
    THEN <<>>
    ELSE (IF IsWord(doc[i]) /\ (i = 1 \/ doc[i - 1] # EOS)
          THEN <<doc[i]>> ELSE <<>>) \o NotAfterEos(doc, i + 1)

EosThenWord(doc) ==
    \E i \in 1..(Len(doc) - 1) : doc[i] = EOS /\ IsWord(doc[i + 1])

\* C8 as stated: for every batch of token sequences, the non-empty sentence
\* positions of a document, concatenated in order, are the document's
\* original tokens without start/end markers and padding.
SplitKeepsEveryToken ==
    sp_pc = "done" =>
        \A d \in DOMAIN sp_seqs : DocContent(d) = Content(sp_seqs[d])

\* C8 amended: every position tensor has one row per document; a document
\* in which no end marker is directly followed by a real token is given back
\* whole and in order; in any document exactly the real tokens that directly
\* follow an end marker are dropped and all others are kept in place.
SplitKeepsTokensNotAfterEos ==
    sp_pc = "done" =>
        /\ \A s \in DOMAIN sp_batch : DOMAIN sp_batch[s] = DOMAIN sp_seqs
        /\ \A d \in DOMAIN sp_seqs :
              /\ DocContent(d) = NotAfterEos(sp_seqs[d], 1)
              /\ (~EosThenWord(sp_seqs[d]) =>
                      DocContent(d) = Content(sp_seqs[d]))
              /\ (EosThenWord(sp_seqs[d]) =>
                      Len(DocContent(d)) < Len(Content(sp_seqs[d])))

\* C8 witness: a two-sentence document split into its two sentences beside
\* a one-sentence document that was padded with an empty sentence.
SplitWitness ==
    /\ sp_pc = "done"
    /\ Len(sp_batch) = 2
    /\ Len(sp_seqs) = 2
    /\ Content(sp_batch[1][1]) # <<>>
    /\ Content(sp_batch[2][1]) # <<>>
    /\ Content(sp_batch[1][2]) # <<>>
    /\ sp_batch[2][2] = <<PAD, PAD, PAD>>
    /\ DocContent(1) = Content(sp_seqs[1])

\* Record number carried by an element of seqs_x / seqs_y (see BatchOf).
RecNo(elem) == elem[1]

ShardSlots == {<<s, o>> \in (DOMAIN sh_out) \X (1..MaxBatch + 1) :
                  o <= Len(sh_out[s][1])}

\* C9: the shards split_shard yields partition the batch: every record is in
\* exactly one shard, the elements of all inputs that belong to one record
\* sit in the same shard at the same offset, no shard is empty; and with
\* split_size <= 1 the single shard is the inputs themselves, in their order.
ShardsPartitionBatch ==
    sh_pc = "done" =>
        /\ \A s \in DOMAIN sh_out :
              /\ Len(sh_out[s][1]) > 0
              /\ Len(sh_out[s][2]) = Len(sh_out[s][1])
              /\ \A o \in 1..Len(sh_out[s][1]) :
                    LET r == RecNo(sh_out[s][1][o])
                    IN  /\ sh_out[s][1][o] = sh_inputs[1][r]
                        /\ sh_out[s][2][o] = sh_inputs[2][r]
        /\ \A r \in DOMAIN sh_inputs[1] :
              Cardinality({sl \in ShardSlots :
                              RecNo(sh_out[sl[1]][1][sl[2]]) = r}) = 1
        /\ (split_size <= 1 => sh_out = <<sh_inputs>>)

\* C9 witness: a batch that was really cut into several shards after the
\* sort moved a record away from its original place.
ShardsPartitionWitness ==
    /\ sh_pc = "done"
    /\ split_size > 1
    /\ Len(sh_out) >= 3
    /\ RecNo(sh_out[1][1][1]) # 1

ShardLens == [s \in DOMAIN sh_out |-> Len(sh_out[s][1])]

\* The target-side lengths of the yielded records, in the order yielded.
YieldedLengths ==
    LET ys == Flatten([s \in DOMAIN sh_out |-> sh_out[s][2]])
    IN  [i \in DOMAIN ys |-> Len(ys[i])]

\* C10 as stated: for split_size > 1 exactly split_size shards are yielded,
\* the first split_size - 1 of total // split_size records and the last one
\* of the rest.
ShardCountIsSplitSize ==
    (sh_pc = "done" /\ split_size > 1) =>
        LET total == Len(sh_inputs[1])
            q == total \div split_size
        IN  /\ Len(sh_out) = split_size
            /\ \A s \in 1..(split_size - 1) : ShardLens[s] = q
            /\ ShardLens[split_size] = total - (split_size - 1) * q

\* C10 amended: for split_size > 1 the shards are contiguous runs of the
\* length-sorted batch; when split_size >= total there is one shard, the
\* whole sorted batch; otherwise, with q = total // split_size, there are
\* ceil(total / q) shards, all of q records except the last, which holds
\* the 1..q records left over -- so there are exactly split_size shards only
\* when split_size divides total, and more than split_size otherwise.
ShardSizesFollowStride ==
    (sh_pc = "done" /\ split_size > 1) =>
        LET total == Len(sh_inputs[1])
            q == total \div split_size
            n == Len(sh_out)
        IN  /\ Len(YieldedLengths) = total
            /\ \A i \in 1..(total - 1) : YieldedLengths[i] <= YieldedLengths[i + 1]
            /\ IF split_size >= total
               THEN n = 1
               ELSE /\ n = (total + q - 1) \div q
                    /\ \A s \in 1..(n - 1) : ShardLens[s] = q
                    /\ ShardLens[n] = total - (n - 1) * q
                    /\ ShardLens[n] \in 1..q
                    /\ (n = split_size <=> total % split_size = 0)
                    /\ n >= split_size

\* C10 witness: a remainder that went to an extra, shorter shard.
ShardSizesWitness ==
    /\ sh_pc = "done"
    /\ split_size > 1
    /\ split_size < Len(sh_inputs[1])
    /\ Len(sh_out) = split_size + 1
    /\ ShardLens[Len(sh_out)] < ShardLens[1]

\* ------------------------------------------------------------------------
\* Properties of the training loop
\* ------------------------------------------------------------------------
HistBleus == model_collections.history_bleus

\* The step taken is a training batch that reached the BLEU validation.
BleuValidationRuns ==
    /\ uidx' = uidx + 1
    /\ tr_pc' # "crashed"
    /\ ShouldTriggerBySteps(uidx', training_configs.bleu_valid_freq,
                            training_configs.bleu_valid_warmup)

\* The last score of a history is at least every earlier one.
AtLeastEveryEarlier(h) == \A i \in 1..(Len(h) - 1) : h[i] <= h[Len(h)]

\* The number of scores after the last one that was at least every earlier.
BadSinceBest(h) ==
    LET bests == {i \in 1..Len(h) : \A j \in 1..(i - 1) : h[j] <= h[i]}
    IN  IF bests = {} THEN Len(h) ELSE Len(h) - Max(bests)

NoBestModelWritten ==
    /\ best_saved' = best_saved
    /\ final_dumped' = final_dumped

\* C3: once early stop is triggered it stays triggered and no rotating
\* checkpoint, best-model checkpoint or '.final' dump is written any more,
\* whatever later BLEU scores are; triggering it does not end the loop,
\* which runs on until the epoch index exceeds max_epochs.
EarlyStopIsFinal ==
    /\ [][is_early_stop =>
            /\ is_early_stop'
            /\ ckpt_saved' = ckpt_saved
            /\ NoBestModelWritten]_vars
    /\ [][(~is_early_stop /\ is_early_stop') =>
            (tr_pc' = "loop" /\ eidx' = eidx)]_vars
    /\ [](tr_pc = "done" => eidx > training_configs.max_epochs)
    /\ []((is_early_stop /\ tr_pc # "crashed"
             /\ eidx <= training_configs.max_epochs) => tr_pc = "loop")

\* C3 witness: after early stop, a BLEU validation scored higher than every
\* earlier one at a step where a checkpoint was due, and nothing was saved.
EarlyStopWitness ==
    /\ is_early_stop
    /\ bad_count = 0
    /\ Len(HistBleus) >= 3
    /\ \A i \in 1..(Len(HistBleus) - 1) : HistBleus[i] < HistBleus[Len(HistBleus)]
    /\ ShouldTriggerBySteps(uidx, training_configs.save_freq, 0)
    /\ uidx \notin (ckpt_saved \cup best_saved \cup final_dumped)

\* C4: a BLEU validation appends its score to the history; if the score is
\* at least every earlier one, bad-count becomes 0 and, unless early stop
\* was triggered before, the '.final' dump and the best-model checkpoint
\* are written; otherwise bad-count grows by exactly 1 and no best-model
\* file is written.  No other step touches them, so bad-count is always the
\* number of validations since the last one that was at least every earlier.
BadCountFollowsBleuHistory ==
    /\ [][BleuValidationRuns =>
            /\ Len(HistBleus') = Len(HistBleus) + 1
            /\ SubSeq(HistBleus', 1, Len(HistBleus)) = HistBleus
            /\ IF AtLeastEveryEarlier(HistBleus')
               THEN /\ bad_count' = 0
                    /\ IF is_early_stop
                       THEN NoBestModelWritten
                       ELSE /\ final_dumped' = final_dumped \cup {uidx'}
                            /\ best_saved' = best_saved \cup {uidx'}
               ELSE /\ bad_count' = bad_count + 1
                    /\ NoBestModelWritten]_vars
    /\ [][~BleuValidationRuns =>
            /\ HistBleus' = HistBleus
            /\ bad_count' = bad_count
            /\ NoBestModelWritten]_vars
    /\ [](bad_count = BadSinceBest(HistBleus))

\* C4 witness: a validation that was worse, then one at least as good as
\* every earlier one, which reset bad-count and wrote both files.
BadCountWitness ==
    /\ Len(HistBleus) >= 3
    /\ HistBleus[Len(HistBleus) - 1] < HistBleus[Len(HistBleus) - 2]
    /\ AtLeastEveryEarlier(HistBleus)
    /\ bad_count = 0
    /\ uidx \in best_saved
    /\ uidx \in final_dumped

\* C5: early stop is triggered exactly by a BLEU validation whose score is
\* below an earlier one, in an epoch after epoch 0, with the incremented
\* bad-count at or above early_stop_patience; by nothing else.
EarlyStopTriggeredExactly ==
    [][~is_early_stop =>
          (is_early_stop' <=>
              /\ BleuValidationRuns
              /\ ~AtLeastEveryEarlier(HistBleus')
              /\ bad_count' = bad_count + 1
              /\ bad_count' >= training_configs.early_stop_patience
              /\ eidx > 0
              /\ eidx' = eidx)]_vars

\* C5 witness: the first batch of epoch 1 triggered early stop, with a
\* bad-count that had passed the patience in epoch 0 without triggering it.
EarlyStopTriggerWitness ==
    /\ is_early_stop
    /\ eidx = 1
    /\ batch_no = 1
    /\ bad_count > training_configs.early_stop_patience

\* C6: a RuntimeError with 'out of memory' in its message, raised in any
\* shard's forward/backward or in optim.step(), is swallowed: the count goes
\* up by 1, the gradients are zeroed, no optimizer step completes and the
\* loop goes on; any other failure ends the run; a batch without failure
\* completes exactly one optimizer step.
OomSkipsBatch ==
    /\ [][uidx' = uidx + 1 =>
            /\ (fault'.kind = "oom" =>
                    /\ oom_count' = oom_count + 1
                    /\ grads' = 0
                    /\ optim_steps' = optim_steps
                    /\ tr_pc' = "loop"
                    /\ batch_no' = batch_no + 1)
            /\ (fault'.kind \in {"runtime", "other"} =>
                    /\ tr_pc' = "crashed"
                    /\ oom_count' = oom_count
                    /\ optim_steps' = optim_steps)
            /\ (fault'.kind = "none" =>
                    /\ tr_pc' = "loop"
                    /\ oom_count' = oom_count
                    /\ optim_steps' = optim_steps + 1)]_vars
    /\ [][uidx' = uidx => (oom_count' = oom_count /\ optim_steps' = optim_steps)]_vars
    /\ [](tr_pc = "crashed" <=> fault.kind \in {"runtime", "other"})

\* C6 witness: an out-of-memory failure after the first shard had already
\* accumulated gradients, in a run that went on and later was hit again.
OomWitness ==
    /\ fault.kind = "oom"
    /\ fault.at > 1
    /\ grads = 0
    /\ oom_count = 2
    /\ optim_steps >= 1
    /\ tr_pc = "loop"

\* ------------------------------------------------------------------------
\* The drivers of the document model: compute_forward (main.py 212-300),
\* loss_validation (303-348), bleu_validation (351-469), translate (926-1071)
\* ------------------------------------------------------------------------

\* model.decode_train(y_inp, enc_out, current_sent_mask), main.py 278/284:
\* the teacher-forced call of the memory decoder with the stored cache.
DecodeTrainArgs(current_sent_mask, cache) == <<current_sent_mask>> \o cache

\* The state of the cache on entry to the sentence loop of compute_forward
\* (main.py 247-248).
ForwardEntryCacheKept(cache) == cache

ForwardEntryCache(cache) == FlushedCache

\* The same for bleu_validation (main.py 403-404) and translate (1020-1021).
InferEntryCacheKept(cache) == cache

InferEntryCache(cache) == FlushedCache

DocStart ==
    /\ d2d_calls = 0
    /\ doc_pc = "between"
    /\ doc_driver \in {"train", "translate"}
    /\ doc_kind = "none"
    /\ bno = 0
    /\ n_sents = 0
    /\ sents_no = 0
    /\ beam_step = 0

DocUnchanged ==
    /\ UNCHANGED <<dec_signature, d2d_calls, doc_driver>>
    /\ UNCHANGED <<shardVars, splitVars, trainVars,
                   outVars, mapVars, beamVars>>

\* compute_forward up to its sentence loop (main.py 227-248), called by
\* train for a training batch or by loss_validation, which has flushed the
\* cache itself (main.py 322).
BeginComputeForward ==
    /\ doc_pc = "between"
    /\ doc_driver = "train"
    /\ bno < MaxDocBatches
    /\ \E kind \in {"train", "loss_validation"}, n \in 1..MaxSents :
          /\ doc_kind' = kind
          /\ n_sents' = n
    /\ bno' = bno + 1
    /\ sents_no' = 0
    /\ beam_step' = 0
    /\ memory_cache' = ForwardEntryCache(memory_cache)
    /\ memory_mask' = NoTensor
    /\ doc_pc' = "forward"
    /\ UNCHANGED dec_call
    /\ DocUnchanged

\* One round of the sentence loop of compute_forward (main.py 250-295).
ForwardSentence ==
    /\ doc_pc = "forward"
    /\ sents_no < n_sents
    /\ LET unit == Unit(bno, sents_no + 1, 0)
           current_sent_mask == Tensor("mask", <<unit>>)
       IN  /\ DecoderCall("decode_train",
                          DecodeTrainArgs(current_sent_mask, memory_cache),
                          unit, sents_no = 0)
           /\ memory_mask' = current_sent_mask
    /\ sents_no' = sents_no + 1
    /\ UNCHANGED <<doc_pc, doc_kind, bno, n_sents, beam_step>>
    /\ DocUnchanged

\* compute_forward raises in a training batch (main.py 760-787): the batch
\* is given up with the cache as it is.
ForwardRaises ==
    /\ doc_pc = "forward"
    /\ doc_kind = "train"
    /\ sents_no < n_sents
    /\ doc_pc' = "between"
    /\ UNCHANGED <<cacheVars, doc_kind, bno, n_sents, sents_no, beam_step>>
    /\ DocUnchanged

\* compute_forward returns (main.py 297-300).
EndComputeForward ==
    /\ doc_pc = "forward"
    /\ sents_no = n_sents
    /\ doc_pc' = "between"
    /\ UNCHANGED <<cacheVars, doc_kind, bno, n_sents, sents_no, beam_step>>
    /\ DocUnchanged

\* The end of a training epoch flushes the cache (main.py 916-919).
DocEpochEnd ==
    /\ doc_pc = "between"
    /\ doc_driver = "train"
    /\ memory_cache # FlushedCache
    /\ memory_cache' = FlushedCache
    /\ UNCHANGED <<memory_mask, dec_call>>
    /\ UNCHANGED <<doc_pc, doc_kind, bno, n_sents, sents_no, beam_step>>
    /\ DocUnchanged

\* A batch of bleu_validation (main.py 376-404) or translate (998-1021) up
\* to its sentence loop.
BeginInferBatch ==
    /\ doc_pc = "between"
    /\ bno < MaxDocBatches
    /\ doc_kind' = IF doc_driver = "train" THEN "bleu_validation"
                   ELSE "translate"
    /\ \E n \in 1..MaxSents : n_sents' = n
    /\ bno' = bno + 1
    /\ sents_no' = 0
    /\ beam_step' = 0
    /\ memory_cache' = InferEntryCache(memory_cache)
    /\ memory_mask' = NoTensor
    /\ doc_pc' = "beam_search"
    /\ UNCHANGED dec_call
    /\ DocUnchanged

\* One decoding step of beam_search: a call of D2D.decode (D2D.py 77-97).
BeamDecodeStep ==
    /\ doc_pc = "beam_search"
    /\ sents_no < n_sents
    /\ beam_step < MaxSteps
    /\ LET unit == Unit(bno, sents_no + 1, beam_step + 1)
           enc_output_mask == Tensor("mask", <<unit>>)
       IN  DecoderCall("decode", D2DDecodeArgs(enc_output_mask, memory_cache),
                       unit, sents_no = 0 /\ beam_step = 0)
    /\ beam_step' = beam_step + 1
    /\ UNCHANGED <<memory_mask, doc_pc, doc_kind, bno, n_sents, sents_no>>
    /\ DocUnchanged

\* beam_search returns for this sentence position (main.py 418-441,
\* 1035-1049).
BeamSearchEnd ==
    /\ doc_pc = "beam_search"
    /\ sents_no < n_sents
    /\ beam_step >= 1
    /\ sents_no' = sents_no + 1
    /\ beam_step' = 0
    /\ UNCHANGED <<cacheVars, doc_pc, doc_kind, bno, n_sents>>
    /\ DocUnchanged

\* The sentence loop of the batch is over.
EndInferBatch ==
    /\ doc_pc = "beam_search"
    /\ sents_no = n_sents
    /\ doc_pc' = "between"
    /\ UNCHANGED <<cacheVars, doc_kind, bno, n_sents, sents_no, beam_step>>
    /\ DocUnchanged

DocInit ==
    CacheStart /\ DocStart /\ ShardIdle /\ SplitIdle /\ TrainIdle /\ OutIdle /\ MapIdle /\ BeamIdle

DocNext ==
    \/ BeginComputeForward
    \/ ForwardSentence
    \/ ForwardRaises
    \/ EndComputeForward
    \/ DocEpochEnd
    \/ BeginInferBatch
    \/ BeamDecodeStep
    \/ BeamSearchEnd
    \/ EndInferBatch

SpecDoc == DocInit /\ [][DocNext]_vars

OutInit ==
    OutStart /\ ShardIdle /\ SplitIdle /\ TrainIdle /\ CacheIdle /\ DocIdle /\ MapIdle /\ BeamIdle

OutNext == TranslateBatch \/ WriteTranslation

SpecOut == OutInit /\ [][OutNext]_vars

\* ------------------------------------------------------------------------
\* Properties of the memory cache
\* ------------------------------------------------------------------------

\* C2: every D2D.forward / D2D.decode call hands the memory decoder, as its
\* memories, exactly the cache the previous call stored (the empty cache
\* right after a reset), and leaves in ctx.memory_cache what the decoder
\* returned.
CacheHandedOnExactly ==
    dec_call # NoCall =>
        /\ dec_call.mems_in = dec_call.cache_before
        /\ memory_cache = dec_call.mems_out

\* C21: every D2D.decode step of beam search in translate gives the memory
\* decoder, as its encoder mask, the mask of the current sentence that the
\* decoder state holds as ctx_mask, and gives it the stored cache as its
\* memories and as nothing else.
DecodePassesSentenceMask ==
    (doc_driver = "translate" /\ doc_pc = "beam_search" /\ beam_step >= 1
        /\ dec_call.fn = "decode") =>
        /\ dec_call.enc_mask =
              Tensor("mask", <<Unit(bno, sents_no + 1, beam_step)>>)
        /\ dec_call.mems_in = dec_call.cache_before

\* C1: the first memory decoder call of every batch of compute_forward,
\* bleu_validation and translate finds ctx.memory_cache empty and
\* ctx.memory_mask None, and no call of a batch finds in the cache a unit of
\* another batch.
FirstCallSeesFlushedCache ==
    dec_call # NoCall =>
        /\ dec_call.first =>
              /\ dec_call.cache_before = <<>>
              /\ dec_call.mask_before = NoTensor
        /\ \A i \in DOMAIN dec_call.cache_before :
              \A j \in DOMAIN dec_call.cache_before[i].v :
                 dec_call.cache_before[i].v[j].b = dec_call.b

\* The first decoder call of a batch that is not the first one has been
\* made and has left its memories in the cache.
FirstCallWitness ==
    /\ dec_call.first
    /\ dec_call.b >= 2
    /\ dec_call.fn \in {"decode_train", "decode"}
    /\ memory_cache # <<>>
    /\ doc_pc \in {"forward", "beam_search"}

\* ------------------------------------------------------------------------
\* Properties of the written translation
\* ------------------------------------------------------------------------

\* C7: whatever the order in which the batches came, the lines written are
\* the translated sentences of document 0, then those of document 1 and so
\* on, and within a document in the order of the sentence positions.
OutputInCorpusOrder ==
    tl_pc = "done" =>
        /\ {<<NumOf(trans_sents[i]), PosOf(trans_sents[i])>> :
               i \in DOMAIN trans_sents} = tl_translated
        /\ \A i, j \in DOMAIN trans_sents :
              i < j =>
                \/ NumOf(trans_sents[i]) < NumOf(trans_sents[j])
                \/ /\ NumOf(trans_sents[i]) = NumOf(trans_sents[j])
                   /\ PosOf(trans_sents[i]) < PosOf(trans_sents[j])

\* Three documents came in an order that is neither the corpus order nor
\* its reverse, each has a sentence written and one of them has two.
OutputOrderWitness ==
    /\ tl_pc = "done"
    /\ numbers = <<1, 2, 0>>
    /\ {NumOf(trans_sents[i]) : i \in DOMAIN trans_sents} = {0, 1, 2}
    /\ Len(trans_sents) > 3

\* The number of the document whose sentences trans_docs holds at index d:
\* in the order of the batches while they come, in corpus order at the end.
DocNumAt(d) == IF tl_pc = "done" THEN d - 1 ELSE numbers[d]

\* C19: for every document and sentence position the best beam alone is
\* used, without its padding and end marker; a position whose best beam
\* holds no token adds nothing to the document, any other adds exactly one
\* sentence; so no sentence of the output is empty.
EmptyHypothesisSkipped ==
    /\ DOMAIN trans_docs = DOMAIN numbers
    /\ \A d \in DOMAIN trans_docs :
          LET doc == trans_docs[d]
              positions == {pos \in 1..MaxOutSents :
                              <<DocNumAt(d), pos>> \in tl_translated}
          IN  /\ \A i \in DOMAIN doc :
                    /\ Len(doc[i]) = 1
                    /\ doc[i] = <<SentWord(DocNumAt(d), PosOf(doc[i]))>>
                    /\ PosOf(doc[i]) \in positions
              /\ \A pos \in positions :
                    Cardinality({i \in DOMAIN doc : PosOf(doc[i]) = pos}) = 1
    /\ \A i \in DOMAIN trans_sents : trans_sents[i] # <<>>

\* The output is written; one document has no sentence at all, although
\* its batch had at least one sentence position, one has a single sentence
\* and one has a sentence for each of two positions.
EmptyHypothesisWitness ==
    /\ tl_pc = "done"
    /\ \E d \in DOMAIN trans_docs : Len(trans_docs[d]) = 0
    /\ \E d \in DOMAIN trans_docs : Len(trans_docs[d]) = 1
    /\ \E d \in DOMAIN trans_docs : Len(trans_docs[d]) = MaxOutSents
    /\ Len(trans_sents) = 1 + MaxOutSents

\* ------------------------------------------------------------------------
\* Properties of src_doc_sents_map and of the per-sentence mask
\* ------------------------------------------------------------------------

\* The positions of start markers of a row up to position j.
StartsUpTo(row, j) == {p \in 1..j : row[p] = BOS}

\* The segment ids src_doc_sents_map gave to the positions of all rows.
AllSegmentIds ==
    UNION {Range(map_res.res[i]) : i \in DOMAIN map_res.res}

\* Segment id and rank of every position as the claim defines them: the
\* number of start markers up to it less one, and the distance to the latest
\* of them (to the start of the row if there is none); ids never fall and
\* rise by one at the start markers only.
SegmentsAndRanksByStartMarkers ==
    \A i \in DOMAIN mp_x :
       LET row == mp_x[i]
           seg == map_res.res[i]
           rnk == map_res.sent_rank[i]
       IN  /\ Len(seg) = Len(row)
           /\ Len(rnk) = Len(row)
           /\ \A j \in DOMAIN row :
                 /\ seg[j] = Cardinality(StartsUpTo(row, j)) - 1
                 /\ rnk[j] = IF StartsUpTo(row, j) = {} THEN j - 1
                             ELSE j - Max(StartsUpTo(row, j))
                 /\ seg[j] - (IF j = 1 THEN -1 ELSE seg[j - 1]) =
                       (IF row[j] = BOS THEN 1 ELSE 0)

\* C11 as stated: segment ids and ranks follow the start markers, the rank
\* is 0 at the start markers and nowhere else, and the third value returned
\* is the largest segment id of all rows.
SentsMapAsStated ==
    mp_pc # "ready" =>
        /\ SegmentsAndRanksByStartMarkers
        /\ \A i \in DOMAIN mp_x : \A j \in DOMAIN mp_x[i] :
              map_res.sent_rank[i][j] = 0 <=> mp_x[i][j] = BOS
        /\ AllSegmentIds # {} => map_res.max_n_sents = Max(AllSegmentIds)

\* C11 amended: segment ids and ranks follow the start markers; the rank is
\* 0 at the start markers and at the first position of a row, and nowhere
\* else; the third value returned is the largest segment id of all rows, or
\* 0 if no row holds a start marker.
SentsMapFollowsStartMarkers ==
    mp_pc # "ready" =>
        /\ SegmentsAndRanksByStartMarkers
        /\ \A i \in DOMAIN mp_x : \A j \in DOMAIN mp_x[i] :
              map_res.sent_rank[i][j] = 0 <=> (mp_x[i][j] = BOS \/ j = 1)
        /\ map_res.max_n_sents = Max(AllSegmentIds \cup {0})

\* src_doc_sents_map has mapped a batch holding a document of more than
\* one segment and an empty document, whose row is padding only and has no
\* start marker.
SentsMapWitness ==
    /\ mp_pc # "ready"
    /\ map_res.max_n_sents >= 1
    /\ \E i \in DOMAIN mp_x : Cardinality(StartsUpTo(mp_x[i], Len(mp_x[i]))) >= 2
    /\ \E i \in DOMAIN mp_x : mp_x[i] # <<>> /\ Range(mp_x[i]) = {PAD}

\* The position of the padded row that column j of the mask stands for
\* (with GLOBAL_CAT the columns run over the row twice).
RowPos(i, j) == ((j - 1) % Len(mp_x[i])) + 1

\* C17: the mask built at sentence position k leaves a source position of
\* a document unmasked exactly if the position lies in segment k (it has k+1
\* start markers at or before it) and is not padding; so padding is always
\* masked, and a document with fewer than k+1 segments is masked entirely.
SentMaskKeepsCurrentSentence ==
    (mp_pc \in {"loop", "done"} /\ mp_sents_no >= 1) =>
        LET k == mp_sents_no - 1
        IN  /\ DOMAIN mp_sent_mask = DOMAIN mp_x
            /\ \A i \in DOMAIN mp_x :
                  /\ Len(mp_sent_mask[i]) =
                        (IF global_cat THEN 2 ELSE 1) * Len(mp_x[i])
                  /\ \A j \in DOMAIN mp_sent_mask[i] :
                        /\ mp_sent_mask[i][j] \in BOOLEAN
                        /\ ~mp_sent_mask[i][j] <=>
                              /\ Cardinality(StartsUpTo(mp_x[i], RowPos(i, j)))
                                    = k + 1
                              /\ mp_x[i][RowPos(i, j)] # PAD
                        /\ mp_x[i][RowPos(i, j)] = PAD => mp_sent_mask[i][j]
                  /\ Cardinality(StartsUpTo(mp_x[i], Len(mp_x[i]))) < k + 1
                        => \A j \in DOMAIN mp_sent_mask[i] : mp_sent_mask[i][j]

\* The mask of the second position has been built for a batch with a
\* document that has a second segment, left unmasked, and a padded document
\* of one segment, masked entirely.
SentMaskWitness ==
    /\ mp_pc = "loop"
    /\ mp_sents_no = 2
    /\ \E i \in DOMAIN mp_x : FALSE \in Range(mp_sent_mask[i])
    /\ \E i \in DOMAIN mp_x :
          /\ PAD \in Range(mp_x[i])
          /\ BOS \in Range(mp_x[i])
          /\ Range(mp_sent_mask[i]) = {TRUE}

\* ------------------------------------------------------------------------
\* Properties of scheduler, moving average and normalization in train
\* ------------------------------------------------------------------------

\* C12: with a schedule_method that is none of the known names the run has
\* no scheduler, never fails for want of one, and no scheduler step is made.
UnknownSchedulerIsHarmless ==
    (tr_pc # "idle"
        /\ optimizer_configs.schedule_method \notin {None, "loss", "noam"}) =>
            /\ fault.kind # "no_scheduler"
            /\ sched_steps = <<>>

\* C13: unless an exception ends the run, the loop ends; it ends only at
\* the end of an epoch, when the incremented epoch index exceeds max_epochs,
\* so after all batches of epochs 0..max_epochs, whatever early stop and
\* out-of-memory skips there were.
LoopEndsAfterMaxEpochs ==
    /\ ([](tr_pc # "crashed") => <>(tr_pc = "done"))
    /\ [][(tr_pc # "done" /\ tr_pc' = "done") =>
            /\ batch_no = epoch_len
            /\ eidx' = eidx + 1
            /\ eidx' > training_configs.max_epochs]_vars
    /\ [](tr_pc = "done" =>
            /\ eidx = training_configs.max_epochs + 1
            /\ uidx = (training_configs.max_epochs + 1) * epoch_len)

\* A run of more than one epoch has ended after early stop was triggered
\* and a batch was skipped for lack of memory.
LoopEndWitness ==
    /\ tr_pc = "done"
    /\ training_configs.max_epochs >= 1
    /\ is_early_stop
    /\ oom_count >= 1

\* C14 as stated: every shard of a training batch is normalized by 20
\* times the number of documents of the shard.
NormalizedByShardSize ==
    \A k \in DOMAIN shard_norms :
       shard_norms[k].normalization = SentsPerDoc * shard_norms[k].docs

RECURSIVE DocsUpTo(_)
DocsUpTo(k) == IF k = 0 THEN 0 ELSE shard_norms[k].docs + DocsUpTo(k - 1)

\* C14: every shard of a training batch is normalized by 20 times the
\* number of documents of the whole batch, whatever the size of the shard
\* and the update cycle; the shards that ran hold documents of the batch,
\* all of them when no shard raised.
NormalizedByBatchSize ==
    /\ \A k \in DOMAIN shard_norms :
          /\ shard_norms[k].normalization = SentsPerDoc * shard_norms[k].batch
          /\ shard_norms[k].docs >= 1
          /\ DocsUpTo(k) <= shard_norms[k].batch
    /\ (tr_pc = "loop" /\ fault = NoFault /\ shard_norms # <<>>) =>
          DocsUpTo(Len(shard_norms)) = shard_norms[1].batch

\* A batch was split into several shards, each smaller than the batch, and
\* every one of them ran.
NormWitness ==
    /\ tr_pc = "loop"
    /\ fault = NoFault
    /\ training_configs.update_cycle > 1
    /\ Len(shard_norms) >= 2
    /\ \A k \in DOMAIN shard_norms : shard_norms[k].docs < shard_norms[k].batch

\* C15: a training batch advances the moving average exactly if tracking
\* is enabled, the epoch index has reached moving_average_start_epoch and
\* the optimizer step of the batch succeeded.
MaStepsOnlyAfterOptimizerStep ==
    [][uidx' = uidx + 1 =>
         (ma_steps' = ma_steps + 1 <=>
            /\ training_configs.moving_average_method # None
            /\ eidx >= training_configs.moving_average_start_epoch
            /\ optim_steps' = optim_steps + 1)]_vars

\* The best validation loss after each of the loss validations so far.
BestLossAt(i) ==
    Min({model_collections.history_losses[j] : j \in 1..i})

\* C16: with 'noam' the scheduler has been stepped once for every batch
\* begun, with the update index of the batch, also if the forward pass of
\* the batch then failed, and never otherwise; with 'loss' it has been
\* stepped once for every loss validation, with the best loss so far, and
\* never otherwise; without schedule_method it has never been stepped.
SchedulerSteppedAsConfigured ==
    tr_pc # "idle" =>
        /\ optimizer_configs.schedule_method = "noam" =>
              sched_steps = [i \in 1..uidx |->
                               [at |-> "batch", uidx |-> i, arg |-> i]]
        /\ optimizer_configs.schedule_method = "loss" =>
              /\ Len(sched_steps) = Len(model_collections.history_losses)
              /\ \A i \in DOMAIN sched_steps :
                    /\ sched_steps[i].at = "loss_validation"
                    /\ sched_steps[i].arg = BestLossAt(i)
                    /\ ShouldTriggerBySteps(sched_steps[i].uidx,
                          training_configs.loss_valid_freq, 0)
                    /\ \A j \in DOMAIN sched_steps :
                          i < j => sched_steps[i].uidx < sched_steps[j].uidx
        /\ optimizer_configs.schedule_method = None => sched_steps = <<>>

\* A 'noam' run has stepped its scheduler for a batch whose forward pass
\* then raised, after batches that were validated.
SchedulerWitness ==
    /\ optimizer_configs.schedule_method = "noam"
    /\ tr_pc = "crashed"
    /\ fault.kind = "runtime"
    /\ fault.at = 1
    /\ Len(model_collections.history_losses) >= 1
    /\ Len(sched_steps) >= 3

\* C18: after every batch, whatever validations it ran, the model holds
\* the live parameters the optimizer left; with moving average enabled the
\* validations ran on the moving-average parameters.
ValidationRestoresLiveParams ==
    tr_pc \in {"loop", "done"} =>
        /\ model_params = LiveParams(optim_steps)
        /\ \A ev \in {"loss", "bleu"} :
              valid_params[ev] \in
                 {NoParams,
                  IF training_configs.moving_average_method # None
                  THEN MaParams(ma_steps) ELSE LiveParams(optim_steps)}

\* With moving average enabled a batch ran both validations on the
\* moving-average parameters and the model holds the live ones again.
RestoreWitness ==
    /\ tr_pc = "loop"
    /\ training_configs.moving_average_method # None
    /\ valid_params.loss = MaParams(ma_steps)
    /\ valid_params.bleu = MaParams(ma_steps)
    /\ ma_steps >= 1
    /\ model_params = LiveParams(optim_steps)
    /\ optim_steps >= 2

\* ------------------------------------------------------------------------
\* Properties of the decoder state
\* ------------------------------------------------------------------------

\* C20: reorder_dec_states on a state made by init_decoder and passed
\* through any number of decode calls succeeds; the self-attention caches
\* it returns are the former ones gathered by new_beam_indices, context and
\* context mask are as before.
ReorderDecStatesSucceeds ==
    bs_call # NoReorder =>
        /\ bs_call.raised = None
        /\ dec_states.ctx = bs_call.before.ctx
        /\ dec_states.ctx_mask = bs_call.before.ctx_mask
        /\ dec_states.slf_attn_caches =
              ReorderDecStates(bs_call.before, bs_call.new_beam_indices,
                               bs_call.beam_size).states.slf_attn_caches
        /\ dec_states.slf_attn_caches # None

\* ------------------------------------------------------------------------
\* Properties of checkpoint and reload
\* ------------------------------------------------------------------------

\* C22: a run started again from a checkpoint has the epoch index, update
\* index, bad-count and out-of-memory count the run had when the checkpoint
\* was saved; each of them is in the collections the checkpoint holds.
ReloadRestoresCounters ==
    /\ [][(reloads' = reloads + 1 /\ latest_ckpt.exists) =>
            /\ eidx' = latest_ckpt.run.eidx
            /\ uidx' = latest_ckpt.run.uidx
            /\ bad_count' = latest_ckpt.run.bad_count
            /\ oom_count' = latest_ckpt.run.oom_count]_vars
    /\ [](latest_ckpt.exists =>
            CountersRead(latest_ckpt.collections) = latest_ckpt.run)

\* ------------------------------------------------------------------------
\* Properties of the loss normalisation by words
\* ------------------------------------------------------------------------

\* C23: with norm_by_words the divisor of every document at every sentence
\* position, the number of its label tokens that are not padding, is
\* positive, also for a document that was padded with empty sentences.
WordsNormPositive ==
    sp_pc = "normed" =>
        \A pos \in DOMAIN words_norm :
           \A d \in DOMAIN words_norm[pos] : words_norm[pos][d] > 0

====
